---- MODULE Spec2Model ----
(***************************************************************************)
(* A model of picaso/atmsetup.py: the ATMSETUP class that turns a user     *)
(* configuration into level/layer arrays, a molecule registry, continuum   *)
(* pairs and cloud arrays, in 1-D and in 3-D (gangle x tangle facets).     *)
(*                                                                         *)
(* Representation.  A string is a sequence of one-character strings, so    *)
(* that get_weights can scan it character by character.  A numpy array is  *)
(* a record [nd |-> rank, a |-> nested sequences], indexed from 1.  Real   *)
(* numbers are integers: every table cell is an even number, so that       *)
(* 0.5*(x+y) is exact, and a product of two pressures is a perfect square, *)
(* so that sqrt is exact.  A pressure cell x stands for x/1000 bar.        *)
(***************************************************************************)
EXTENDS Integers, Sequences, FiniteSets, TLC

VARIABLES
    input,                \* self.input: the configuration (never assigned again)
    dimension,            \* self.dimension
    warnings,             \* self.warnings
    level,                \* self.level: dict, key -> array
    layer,                \* self.layer: dict, key -> array (or dict for 'cloud')
    c,                    \* self.c: the constants bundle
    molecules,            \* self.molecules
    weights,              \* self.weights: the columns of the one-row DataFrame
    continuum_molecules,  \* self.continuum_molecules
    planet,               \* self.planet
    angles,               \* self.gangles, self.tangles
    pc,                   \* "run", or "failed" once a call has raised
    err,                  \* the exception that ended the run
    last,                 \* the method called last, and whether it returned
    wformula,             \* get_weights on its own: the argument
    wresult               \* get_weights on its own: what it returned or raised

vars == <<input, dimension, warnings, level, layer, c, molecules, weights,
          continuum_molecules, planet, angles, pc, err, last, wformula, wresult>>

\* the instance's attributes
selfvars == <<input, dimension, warnings, level, layer, c, molecules, weights,
              continuum_molecules, planet, angles>>

(***************************************************************************)
(* Bounds of the model.                                                    *)
(***************************************************************************)
MaxLen == 4        \* longest formula handed to get_weights on its own
MaxCols == 4       \* most columns of a 1-D profile table
MaxList == 2       \* longest explicit molecule list (whichones)
MaxLevels == 3     \* most rows (levels) of a profile table
MaxAngle == 2      \* most gangles, and most tangles
MaxWave == 2       \* most points of a wavenumber grid

(***************************************************************************)
(* Characters (str.isupper, str.islower, float(ch)).                       *)
(***************************************************************************)
UpperChars == {"A","B","C","D","E","F","G","H","I","J","K","L","M",
               "N","O","P","Q","R","S","T","U","V","W","X","Y","Z"}
LowerChars == {"a","b","c","d","e","f","g","h","i","j","k","l","m",
               "n","o","p","q","r","s","t","u","v","w","x","y","z"}
DigitChars == {"0","1","2","3","4","5","6","7","8","9"}

isupper(ch) == ch \in UpperChars
islower(ch) == ch \in LowerChars

\* float(ch) of one character: a number for a digit, ValueError otherwise.
IsFloatChar(ch) == ch \in DigitChars
FloatOfChar(ch) ==
    CASE ch = "0" -> 0 [] ch = "1" -> 1 [] ch = "2" -> 2 [] ch = "3" -> 3
      [] ch = "4" -> 4 [] ch = "5" -> 5 [] ch = "6" -> 6 [] ch = "7" -> 7
      [] ch = "8" -> 8 [] ch = "9" -> 9

(***************************************************************************)
(* The element table (picaso/elements.py, symbol -> atomic mass).  Masses  *)
(* are rounded to whole numbers.  A lookup of a missing symbol raises      *)
(* KeyError.                                                               *)
(***************************************************************************)
ele ==
    (<<"H">> :> 1) @@ (<<"H","e">> :> 4) @@ (<<"C">> :> 12) @@ (<<"N">> :> 14)
    @@ (<<"O">> :> 16) @@ (<<"N","a">> :> 23) @@ (<<"C","l">> :> 35)

(***************************************************************************)
(* Results of a call that may raise.                                       *)
(***************************************************************************)
\* None, and a value that is not None; also an attribute not yet assigned
None    == [some |-> FALSE]
Some(v) == [some |-> TRUE, v |-> v]

Ok(v)      == [ok |-> TRUE, v |-> v]
Raise(e)   == [ok |-> FALSE, e |-> e]

\* An entry of molecule_list: a float or a str.
Num(n)  == [k |-> "float", v |-> n]
Str(s)  == [k |-> "str", v |-> s]

(***************************************************************************)
(* get_weights, first loop: scan the characters of the formula i.  The    *)
(* character at 0-based position j is i[j+1] here.  A lowercase letter is  *)
(* appended to molecule_list[j-1], the CHARACTER position before it, not   *)
(* to the last entry of the list (Python: a negative index counts from the *)
(* end, an index past the end raises IndexError, float + str raises        *)
(* TypeError; both raised inside the except clause, so they escape).       *)
(***************************************************************************)
RECURSIVE ScanChars(_, _, _)
ScanChars(i, j, molecule_list) ==
    IF j >= Len(i) THEN Ok(molecule_list)
    ELSE LET ch == i[j + 1] IN
         IF IsFloatChar(ch)
         THEN ScanChars(i, j + 1, Append(molecule_list, Num(FloatOfChar(ch))))
         ELSE IF isupper(ch)
         THEN ScanChars(i, j + 1, Append(molecule_list, Str(<<ch>>)))
         ELSE IF islower(ch)
         THEN LET n   == Len(molecule_list)
                  idx == IF j - 1 < 0 THEN j - 1 + n ELSE j - 1   \* 0-based
              IN  IF idx < 0 \/ idx >= n THEN Raise("IndexError")
                  ELSE IF molecule_list[idx + 1].k = "float" THEN Raise("TypeError")
                  ELSE ScanChars(i, j + 1,
                         [molecule_list EXCEPT ![idx + 1] = Str(@.v \o <<ch>>)])
         ELSE ScanChars(i, j + 1, molecule_list)

(***************************************************************************)
(* get_weights, second loop: every str entry is looked up in the element   *)
(* table and multiplied by the entry after it when that is a float (one    *)
(* digit), by 1 otherwise (float(str) raises ValueError, an index past the *)
(* end raises IndexError: both caught).                                    *)
(***************************************************************************)
RECURSIVE SumMass(_, _, _)
SumMass(molecule_list, j, totmass) ==
    IF j >= Len(molecule_list) THEN Ok(totmass)
    ELSE LET e == molecule_list[j + 1] IN
         IF e.k = "str"
         THEN IF e.v \notin DOMAIN ele THEN Raise("KeyError")
              ELSE LET num == IF j + 1 < Len(molecule_list)
                                 /\ molecule_list[j + 2].k = "float"
                              THEN molecule_list[j + 2].v ELSE 1
                   IN  SumMass(molecule_list, j + 1, totmass + ele[e.v] * num)
         ELSE SumMass(molecule_list, j + 1, totmass)

\* get_weights([i])[i]: the mass of one formula, or the exception raised.
get_weights(i) ==
    LET scanned == ScanChars(i, 0, <<>>)
    IN  IF scanned.ok THEN SumMass(scanned.v, 0, 0) ELSE scanned

(***************************************************************************)
(* Python dicts (self.level, self.layer, self.c, self.planet) and numpy     *)
(* arrays.                                                                 *)
(***************************************************************************)
Has(d, key)      == key \in DOMAIN d
Put(d, key, val) == [x \in (DOMAIN d) \cup {key} |-> IF x = key THEN val ELSE d[x]]

Arr(nd, a) == [nd |-> nd, a |-> a]

\* 0.5*(x + y), elementwise over arrays of rank nd
RECURSIVE Mean2(_, _, _)
Mean2(x, y, nd) ==
    IF nd = 0 THEN (x + y) \div 2
    ELSE [n \in DOMAIN x |-> Mean2(x[n], y[n], nd - 1)]

\* np.sqrt of a whole number: the largest r in lo..hi with r*r <= n
RECURSIVE SqrtSearch(_, _, _)
SqrtSearch(n, lo, hi) ==
    IF lo >= hi THEN lo
    ELSE LET mid == (lo + hi + 1) \div 2
         IN  IF mid * mid <= n THEN SqrtSearch(n, mid, hi)
             ELSE SqrtSearch(n, lo, mid - 1)

sqrt(n) == SqrtSearch(n, 0, 46340)

\* np.sqrt(x * y), elementwise over arrays of rank nd
RECURSIVE GeoMean2(_, _, _)
GeoMean2(x, y, nd) ==
    IF nd = 0 THEN sqrt(x * y)
    ELSE [n \in DOMAIN x |-> GeoMean2(x[n], y[n], nd - 1)]

\* 0.5*(x[1:] + x[:-1]) along the leading axis of the sequence x of rank nd
MidMean(x, nd) == [n \in 1..(Len(x) - 1) |-> Mean2(x[n + 1], x[n], nd - 1)]

\* (mutant) the arithmetic mean where the geometric mean belongs
MidGeo_arithmetic(x, nd) == MidMean(x, nd)

\* np.sqrt(x[1:] * x[:-1]) along the leading axis
MidGeo(x, nd) == [n \in 1..(Len(x) - 1) |-> GeoMean2(x[n + 1], x[n], nd - 1)]

(***************************************************************************)
(* Constants set by get_constants.  k_b and G come from astropy; the model *)
(* works in units in which they are 1.  pconv is bars to dyn/cm2; a        *)
(* pressure cell x of a table stands for x/1000 bar.                       *)
(***************************************************************************)
pconv == 1000000
k_b   == 1
G     == 1

ToCgs(x) == (x * pconv) \div 1000

(***************************************************************************)
(* Column names.                                                           *)
(***************************************************************************)
S_temperature == <<"t","e","m","p","e","r","a","t","u","r","e">>
S_pressure    == <<"p","r","e","s","s","u","r","e">>
S_electron    == <<"e","-">>
S_H2   == <<"H","2">>
S_He   == <<"H","e">>
S_H    == <<"H">>
S_N2   == <<"N","2">>
S_CH4  == <<"C","H","4">>
S_Hm   == <<"H","-">>
S_H2m  == <<"H","2","-">>
S_Hp   == <<"H","+">>
S_H2O  == <<"H","2","O">>
S_NaCl == <<"N","a","C","l">>
S_junk == <<"X","x">>

(***************************************************************************)
(* The profile tables.  The cell of column col (1-based) in row r of the   *)
(* facet (g, t) of the table chosen by input.seed; the 1-D table is the    *)
(* facet (1, 1).  Cells are 2, 8 or 32.                                    *)
(***************************************************************************)
Pow4(n) == CASE n = 0 -> 1 [] n = 1 -> 4 [] n = 2 -> 16

Cell(seed, g, t, r, col) == 2 * Pow4((seed + r + 2 * col + g + 2 * t) % 3)

\* np.where(name == np.array(header))[0][0], 1-based; 0 when absent
RECURSIVE IndexFrom(_, _, _)
IndexFrom(header, name, n) ==
    IF n > Len(header) THEN 0
    ELSE IF header[n] = name THEN n ELSE IndexFrom(header, name, n + 1)

IndexOf(header, name) == IndexFrom(header, name, 1)

InSeq(x, seq) == \E n \in DOMAIN seq : seq[n] = x

\* h5db[gangle][tangle].value[:, col], or read[name].values in 1-D
FacetColumn(cfg, g, t, col) == [r \in 1..cfg.nrows |-> Cell(cfg.seed, g, t, r, col)]

ReadColumn(cfg, name) == FacetColumn(cfg, 1, 1, IndexOf(cfg.header, name))

\* read[names].as_matrix(): one row per level, one column per name
ReadMatrix(cfg, names) ==
    [r \in 1..cfg.nrows |->
        [n \in 1..Len(names) |-> Cell(cfg.seed, 1, 1, r, IndexOf(cfg.header, names[n]))]]

(***************************************************************************)
(* The instance as a record, and the outcome of a method: the instance as  *)
(* the method left it, and the exception it raised ("none": it returned).  *)
(***************************************************************************)
Self == [dimension |-> dimension, warnings |-> warnings, level |-> level,
         layer |-> layer, c |-> c, molecules |-> molecules, weights |-> weights,
         continuum_molecules |-> continuum_molecules, planet |-> planet,
         angles |-> angles]

Return(s)   == [self |-> s, exc |-> "none"]
Throw(s, e) == [self |-> s, exc |-> e]

\* run F on the instance r left, unless r raised
Then(r, F(_)) == IF r.exc = "none" THEN F(r.self) ELSE r

\* weights[name] = pd.Series([mass]): a new column last, an old one in place
SetColumn(w, name, mass) ==
    IF \E n \in DOMAIN w : w[n].name = name
    THEN [n \in DOMAIN w |-> IF w[n].name = name THEN [name |-> name, mass |-> mass]
                                                 ELSE w[n]]
    ELSE Append(w, [name |-> name, mass |-> mass])

ColumnNames(w) == [n \in DOMAIN w |-> w[n].name]
ColumnMasses(w) == [n \in DOMAIN w |-> w[n].mass]

\* (mutant) the warning is dropped
add_warnings_dropped(s, warn) == s

\* add_warnings
add_warnings(s, warn) == [s EXCEPT !.warnings = Append(@, warn)]

W_Ignoring(name) == [text |-> "Ignoring in input file, not recognized molecule",
                     name |-> name]

\* lines 207-208 and 222-223: the electron column and its layer means
LoadElectrons(cfg, s) ==
    IF ~InSeq(S_electron, cfg.header) THEN Throw(s, "KeyError")
    ELSE LET e == ReadColumn(cfg, S_electron)
             s1 == [s EXCEPT !.level = Put(@, "electrons", Arr(1, e))]
         IN  Return([s1 EXCEPT !.layer = Put(@, "electrons", Arr(1, MidMean(e, 1)))])

(***************************************************************************)
(* get_profile, lines 193-211: the explicit list.  Walks whichones from    *)
(* position n with the local DataFrame w.                                  *)
(***************************************************************************)
RECURSIVE ListLoop(_, _, _, _)
ListLoop(cfg, s, w, n) ==
    IF n > Len(cfg.whichones.v) THEN [self |-> s, exc |-> "none", w |-> w]
    ELSE LET i  == cfg.whichones.v[n]
             gw == get_weights(i)
         IN  IF gw.ok THEN ListLoop(cfg, s, SetColumn(w, i, gw.v), n + 1)
             ELSE IF i = S_electron
             THEN LET r == LoadElectrons(cfg, s)
                  IN  IF r.exc = "none" THEN ListLoop(cfg, r.self, w, n + 1)
                      ELSE [self |-> r.self, exc |-> r.exc, w |-> w]
             ELSE [self |-> s, w |-> w,
                   exc |-> "Exception: Molecule in whichones is not recognized"]

(***************************************************************************)
(* get_profile, lines 212-225: every column of the table.                  *)
(***************************************************************************)
RECURSIVE ScanLoop(_, _, _, _)
ScanLoop(cfg, s, w, n) ==
    IF n > Len(cfg.header) THEN [self |-> s, exc |-> "none", w |-> w]
    ELSE LET i  == cfg.header[n]
             gw == get_weights(i)
         IN  IF i \in {S_pressure, S_temperature} THEN ScanLoop(cfg, s, w, n + 1)
             ELSE IF gw.ok
             THEN ScanLoop(cfg, [s EXCEPT !.molecules = Some(Append(@.v, i))],
                           SetColumn(w, i, gw.v), n + 1)
             ELSE IF i = S_electron
             THEN LET r == LoadElectrons(cfg, s)
                  IN  IF r.exc = "none" THEN ScanLoop(cfg, r.self, w, n + 1)
                      ELSE [self |-> r.self, exc |-> r.exc, w |-> w]
             ELSE ScanLoop(cfg, add_warnings(s, W_Ignoring(i)), w, n + 1)

\* lines 193-226
ClassifyColumns(cfg, s) ==
    IF cfg.whichones.some
    THEN ListLoop(cfg, [s EXCEPT !.molecules = cfg.whichones], <<>>, 1)
    ELSE ScanLoop(cfg, [s EXCEPT !.molecules = Some(<<>>)], <<>>, 1)

\* lines 229-231: the mixing ratios of the columns of the local DataFrame w
DefineMixingRatios(cfg, s, w) ==
    IF cfg.psrc = "dict" THEN Throw(s, "TypeError")
    ELSE IF \E n \in DOMAIN w : ~InSeq(w[n].name, cfg.header) THEN Throw(s, "KeyError")
    ELSE LET m  == ReadMatrix(cfg, ColumnNames(w))
             s1 == [s EXCEPT !.level = Put(@, "mixingratios", Arr(2, m))]
             s2 == [s1 EXCEPT !.layer = Put(@, "mixingratios", Arr(2, MidMean(m, 2)))]
         IN  Return([s2 EXCEPT !.weights = Some(w)])

\* lines 241-252: the temperature and pressure columns, or the parameterization
GetTP(cfg, s) ==
    IF InSeq(S_temperature, cfg.header) /\ InSeq(S_pressure, cfg.header)
    THEN LET T  == ReadColumn(cfg, S_temperature)
             P  == [r \in 1..cfg.nrows |-> ToCgs(ReadColumn(cfg, S_pressure)[r])]
             s1 == [s  EXCEPT !.level = Put(@, "temperature", Arr(1, T))]
             s2 == [s1 EXCEPT !.level = Put(@, "pressure", Arr(1, P))]
             s3 == [s2 EXCEPT !.layer = Put(@, "temperature", Arr(1, MidMean(T, 1)))]
         IN  Return([s3 EXCEPT !.layer = Put(@, "pressure", Arr(1, MidGeo(P, 1)))])
    ELSE IF cfg.ptnum THEN Throw(s, "NameError: name 'calc_TP' is not defined")
    ELSE Throw(s, "Exception: There is not adequte information to compute PT profile")

\* lines 255-257
SetLevels(s) ==
    LET nlevel == Len(s.level["mixingratios"].a)
    IN  Return([s EXCEPT !.c = Put(Put(@, "nlevel", nlevel), "nlayer", nlevel - 1)])

\* lines 172-184: where the table comes from
ReadProfile(cfg, s) ==
    IF cfg.ptype # "user"
    THEN Throw(s, "Exception: TODO: only capability for user is included right now")
    ELSE IF cfg.psrc \in {"filepath", "frame", "dict"} THEN Return(s)
    ELSE Throw(s, "Exception: Provide dictionary or a pointer to pointer to filepath")

get_profile(cfg, s) ==
    LET r1 == ReadProfile(cfg, [s EXCEPT !.dimension = "1d"])
        r2 == IF r1.exc = "none" THEN ClassifyColumns(cfg, r1.self)
              ELSE [self |-> r1.self, exc |-> r1.exc, w |-> <<>>]
        r3 == IF r2.exc = "none" THEN DefineMixingRatios(cfg, r2.self, r2.w)
              ELSE Throw(r2.self, r2.exc)
        r4 == Then(r3, LAMBDA x : GetTP(cfg, x))
    IN  Then(r4, SetLevels)

\* calc_PT always raises
calc_PT(s) == Throw(s, "Exception: TODO: Temperature parameterization option not included yet")

(***************************************************************************)
(* get_profile_3d.  Positions in the header and the entries of iheader are *)
(* 0-based, as in the code; header[i] of the code is header[i + 1] here.   *)
(***************************************************************************)
Zeros3(n, ng, nt)    == [r \in 1..n |-> [g \in 1..ng |-> [t \in 1..nt |-> 0]]]
Zeros4(n, m, ng, nt) == [r \in 1..n |-> [k \in 1..m |-> Zeros3(1, ng, nt)[1]]]

\* a[:, g, t] = col  and  a[:, :, g, t] = mat   (g, t 1-based)
SetSlice3(a, g, t, col) ==
    [r \in DOMAIN a |-> [gg \in DOMAIN a[r] |-> [tt \in DOMAIN a[r][gg] |->
        IF gg = g /\ tt = t THEN col[r] ELSE a[r][gg][tt]]]]

SetSlice4(a, g, t, mat) ==
    [r \in DOMAIN a |-> [k \in DOMAIN a[r] |-> [gg \in DOMAIN a[r][k] |->
        [tt \in DOMAIN a[r][k][gg] |->
            IF gg = g /\ tt = t THEN mat[r][k] ELSE a[r][k][gg][tt]]]]]

\* list.pop(idx): the list without the entry AT POSITION idx (0-based)
pop(list, idx) ==
    IF idx < 0 \/ idx >= Len(list) THEN Raise("IndexError")
    ELSE Ok([n \in 1..(Len(list) - 1) |-> IF n <= idx THEN list[n] ELSE list[n + 1]])

\* lines 121-123: the three pops, one after the other
PopThree(iheader, ielec, itemp, ipress) ==
    LET p1 == pop(iheader, ielec)
        p2 == IF p1.ok THEN pop(p1.v, itemp) ELSE p1
    IN  IF p2.ok THEN pop(p2.v, ipress) ELSE p2

\* lines 131-136: the weights and the registry of the columns left in iheader
RECURSIVE WeightLoop(_, _, _, _)
WeightLoop(header, s, iheader, n) ==
    IF n > Len(iheader) THEN Return(s)
    ELSE LET name == header[iheader[n] + 1]
             gw   == get_weights(name)
         IN  IF ~gw.ok THEN Throw(s, gw.e)
             ELSE WeightLoop(header,
                    [s EXCEPT !.weights = Some(SetColumn(@.v, name, gw.v)),
                              !.molecules = Some(Append(@.v, name))],
                    iheader, n + 1)

\* lines 75-110: before the loop over the facets
Allocate3d(cfg, s) ==
    LET ng     == s.c["ngangle"]
        nt     == s.c["ntangle"]
        nlevel == cfg.nrows
        s1 == [s EXCEPT !.dimension = "3d",
                        !.angles = Some([gangles |-> [g \in 1..cfg.fg |-> g],
                                         tangles |-> [t \in 1..cfg.ft |-> t]]),
                        !.c = Put(Put(@, "nlevel", nlevel), "nlayer", nlevel - 1)]
        s2 == [s1 EXCEPT
                 !.level = Put(Put(@, "temperature", Arr(3, Zeros3(nlevel, ng, nt))),
                               "pressure", Arr(3, Zeros3(nlevel, ng, nt))),
                 !.layer = Put(Put(@, "temperature", Arr(3, Zeros3(nlevel - 1, ng, nt))),
                               "pressure", Arr(3, Zeros3(nlevel - 1, ng, nt)))]
    IN  IF InSeq(S_electron, cfg.header)
        THEN [s2 EXCEPT
                 !.level = Put(@, "electrons", Arr(3, Zeros3(nlevel, ng, nt))),
                 !.layer = Put(@, "electrons", Arr(3, Zeros3(nlevel - 1, ng, nt)))]
        ELSE s2

\* lines 117-138: the first pass of the loop; the column positions it finds
FirstPass(cfg, s) ==
    LET header == cfg.header
        none   == [itemp |-> -1, ipress |-> -1, ielec |-> -1, iheader |-> <<>>]
        itemp  == IndexOf(header, S_temperature) - 1
        ipress == IndexOf(header, S_pressure) - 1
        ielec  == IndexOf(header, S_electron) - 1
        popped == PopThree([n \in 1..Len(header) |-> n - 1], ielec, itemp, ipress)
        ng     == s.c["ngangle"]
        nt     == s.c["ntangle"]
        nlevel == cfg.nrows
        loc    == [itemp |-> itemp, ipress |-> ipress, ielec |-> ielec,
                   iheader |-> popped.v]
        s1 == [s EXCEPT
                 !.level = Put(@, "mixingratios",
                               Arr(4, Zeros4(nlevel, Len(popped.v), ng, nt))),
                 !.layer = Put(@, "mixingratios",
                               Arr(4, Zeros4(nlevel - 1, Len(popped.v), ng, nt))),
                 !.weights = Some(<<>>),
                 !.molecules = Some(<<>>)]
    IN  IF itemp < 0 \/ ipress < 0 THEN [r |-> Throw(s, "IndexError"), loc |-> none]
        ELSE IF ielec < 0
        THEN [r |-> Throw(s, "UnboundLocalError: local variable 'ielec' referenced before assignment"),
              loc |-> none]
        ELSE IF ~popped.ok THEN [r |-> Throw(s, "IndexError"), loc |-> none]
        ELSE [r |-> WeightLoop(header, s1, popped.v, 1), loc |-> loc]

\* lines 140-153: the columns of the facet (g, t) into the level and layer arrays
FillFacet(cfg, s, loc, g, t) ==
    LET E   == FacetColumn(cfg, g, t, loc.ielec + 1)
        T   == FacetColumn(cfg, g, t, loc.itemp + 1)
        P   == [r \in 1..cfg.nrows |-> ToCgs(FacetColumn(cfg, g, t, loc.ipress + 1)[r])]
        M   == [r \in 1..cfg.nrows |-> [k \in 1..Len(loc.iheader) |->
                   Cell(cfg.seed, g, t, r, loc.iheader[k] + 1)]]
        set3(d, key, col) == Put(d, key, Arr(3, SetSlice3(d[key].a, g, t, col)))
        set4(d, key, mat) == Put(d, key, Arr(4, SetSlice4(d[key].a, g, t, mat)))
        s1 == IF InSeq(S_electron, cfg.header)
              THEN [s EXCEPT !.level = set3(@, "electrons", E),
                             !.layer = set3(@, "electrons", MidMean(E, 1))]
              ELSE s
    IN  [s1 EXCEPT
           !.level = set4(set3(set3(@, "temperature", T), "pressure", P),
                          "mixingratios", M),
           !.layer = set4(set3(set3(@, "temperature", MidMean(T, 1)),
                               "pressure", MidGeo(P, 1)),
                          "mixingratios", MidMean(M, 2))]

\* lines 114-153: facet n (0-based) is g = n div ntangle, t = n mod ntangle.
\* self.gangles[g] of a file with fewer gangle groups raises IndexError.
RECURSIVE FacetLoop(_, _, _, _)
FacetLoop(cfg, s, loc, n) ==
    LET ng == s.c["ngangle"]
        nt == s.c["ntangle"]
        g  == (n \div nt) + 1
        t  == (n % nt) + 1
    IN  IF n >= ng * nt THEN Return(s)
        ELSE IF g > Len(s.angles.v.gangles) \/ t > Len(s.angles.v.tangles)
        THEN Throw(s, "IndexError")
        ELSE FacetLoop(cfg, FillFacet(cfg, s, loc, g, t), loc, n + 1)

get_profile_3d(cfg, s) ==
    LET s0    == Allocate3d(cfg, s)
        first == FirstPass(cfg, s0)
    IN  IF first.r.exc # "none" THEN first.r
        ELSE FacetLoop(cfg, first.r.self, first.loc, 0)

(***************************************************************************)
(* get_mmw, get_density, get_column_density, get_gravity.                  *)
(***************************************************************************)
\* row @ w: the dot product of a row of mixing ratios and the masses
RECURSIVE Dot(_, _, _)
Dot(row, w, k) == IF k > Len(row) THEN 0 ELSE row[k] * w[k] + Dot(row, w, k + 1)

\* line 355: level['mixingratios'] @ self.weights.values[0]
MatVec(m, w) == [r \in DOMAIN m |-> Dot(m[r], w, 1)]

\* lines 357-360: the same product facet by facet
MatVec3d(m, w, ng, nt) ==
    [r \in DOMAIN m |-> [g \in 1..ng |-> [t \in 1..nt |->
        Dot([k \in DOMAIN m[r] |-> m[r][k][g][t]], w, 1)]]]

get_mmw(s) ==
    IF s.dimension = "unset" THEN Throw(s, "AttributeError")
    ELSE IF ~Has(s.level, "mixingratios") THEN Throw(s, "KeyError")
    ELSE IF ~s.weights.some THEN Throw(s, "AttributeError")
    ELSE LET m  == s.level["mixingratios"]
             w  == ColumnMasses(s.weights.v)
             nd == IF s.dimension = "1d" THEN 1 ELSE 3
             weighted_matrix ==
                 IF s.dimension = "1d" THEN MatVec(m.a, w)
                 ELSE MatVec3d(m.a, w, s.c["ngangle"], s.c["ntangle"])
         IN  Return([s EXCEPT
                 !.level = Put(@, "mmw", Arr(nd, weighted_matrix)),
                 !.layer = Put(@, "mmw", Arr(nd, MidMean(weighted_matrix, nd)))])

\* x / y and x - y, elementwise over arrays of rank nd
RECURSIVE Div2(_, _, _)
Div2(x, y, nd) ==
    IF nd = 0 THEN x \div y ELSE [n \in DOMAIN x |-> Div2(x[n], y[n], nd - 1)]

RECURSIVE DivBy(_, _, _)
DivBy(x, d, nd) ==
    IF nd = 0 THEN x \div d ELSE [n \in DOMAIN x |-> DivBy(x[n], d, nd - 1)]

RECURSIVE Scale(_, _, _)
Scale(x, f, nd) ==
    IF nd = 0 THEN f * x ELSE [n \in DOMAIN x |-> Scale(x[n], f, nd - 1)]

RECURSIVE Sub2(_, _, _)
Sub2(x, y, nd) ==
    IF nd = 0 THEN x - y ELSE [n \in DOMAIN x |-> Sub2(x[n], y[n], nd - 1)]

\* x[1:] - x[:-1] along the leading axis
MidDiff(x, nd) == [n \in 1..(Len(x) - 1) |-> Sub2(x[n + 1], x[n], nd - 1)]

get_density(s) ==
    IF ~Has(s.level, "pressure") \/ ~Has(s.level, "temperature") THEN Throw(s, "KeyError")
    ELSE LET P == s.level["pressure"]
             T == s.level["temperature"]
         IN  Return([s EXCEPT !.level =
                 Put(@, "den", Arr(P.nd, Div2(P.a, Scale(T.a, k_b, T.nd), P.nd)))])

get_column_density(s) ==
    IF ~Has(s.level, "pressure") THEN Throw(s, "KeyError")
    ELSE IF ~Has(s.planet, "gravity") THEN Throw(s, "AttributeError")
    ELSE LET P == s.level["pressure"]
         IN  Return([s EXCEPT !.layer =
                 Put(@, "colden",
                     Arr(P.nd, DivBy(MidDiff(P.a, P.nd), s.planet["gravity"], P.nd)))])

\* astropy: the factor from the unit of the input to cm/s2
UnitFactor(unit) == IF unit = "m/(s**2)" THEN 100 ELSE 1

get_gravity(cfg, s) ==
    LET pl == cfg.planet IN
    IF pl.gravity.some
    THEN Return([s EXCEPT !.planet = Put(@, "gravity",
                                         pl.gravity.v * UnitFactor(pl.gravity_unit))])
    ELSE IF pl.mass.some /\ pl.radius.some
    THEN Return([s EXCEPT !.planet = Put(@, "gravity",
                                         (G * pl.mass.v) \div (pl.radius.v * pl.radius.v))])
    ELSE Throw(s, "Exception: Need to specify gravity or radius and mass + additional units")

(***************************************************************************)
(* get_needed_continuum.                                                   *)
(***************************************************************************)
\* (mutant) He is missing from the names the filter removes
ContinuumOnly_withoutHe == {S_H, S_H2m, S_H2, S_Hm, S_N2}

ContinuumOnly == {S_H, S_H2m, S_H2, S_Hm, S_He, S_N2}

W_NoHplus == [text |-> "No H+ continuum opacity included", name |-> <<>>]

\* a list comprehension [x for x in seq if Keep(x)]
RECURSIVE Filter(_, _, _)
Filter(seq, Keep(_), n) ==
    IF n > Len(seq) THEN <<>>
    ELSE (IF Keep(seq[n]) THEN <<seq[n]>> ELSE <<>>) \o Filter(seq, Keep, n + 1)

\* (mutant) the free-free pair asks for H- where the code asks for H
ContinuumPairs_ffNeedsHminus(mols, electrons) ==
    LET has(x) == InSeq(x, mols)
        add(cond, pair) == IF cond THEN <<pair>> ELSE <<>>
    IN  add(has(S_H2), <<S_H2, S_H2>>)
        \o add(has(S_H2) /\ has(S_He), <<S_H2, S_He>>)
        \o add(has(S_H2) /\ has(S_N2), <<S_H2, S_N2>>)
        \o add(has(S_H2) /\ has(S_H), <<S_H2, S_H>>)
        \o add(has(S_H2) /\ has(S_CH4), <<S_H2, S_CH4>>)
        \o add(has(S_Hm), <<S_Hm, <<"b","f">>>>)
        \o add(has(S_Hm) /\ electrons, <<S_Hm, <<"f","f">>>>)
        \o add(has(S_H2) /\ electrons, <<S_H2, S_H2m>>)

\* (mutant) the (H2,H) rule appends the (H2,He) pair a second time
ContinuumPairs_HCopiesHe(mols, electrons) ==
    LET has(x) == InSeq(x, mols)
        add(cond, pair) == IF cond THEN <<pair>> ELSE <<>>
    IN  add(has(S_H2), <<S_H2, S_H2>>)
        \o add(has(S_H2) /\ has(S_He), <<S_H2, S_He>>)
        \o add(has(S_H2) /\ has(S_N2), <<S_H2, S_N2>>)
        \o add(has(S_H2) /\ has(S_H), <<S_H2, S_He>>)
        \o add(has(S_H2) /\ has(S_CH4), <<S_H2, S_CH4>>)
        \o add(has(S_Hm), <<S_Hm, <<"b","f">>>>)
        \o add(has(S_H) /\ electrons, <<S_Hm, <<"f","f">>>>)
        \o add(has(S_H2) /\ electrons, <<S_H2, S_H2m>>)

\* lines 286-302
ContinuumPairs(mols, electrons) ==
    LET has(x) == InSeq(x, mols)
        add(cond, pair) == IF cond THEN <<pair>> ELSE <<>>
    IN  add(has(S_H2), <<S_H2, S_H2>>)
        \o add(has(S_H2) /\ has(S_He), <<S_H2, S_He>>)
        \o add(has(S_H2) /\ has(S_N2), <<S_H2, S_N2>>)
        \o add(has(S_H2) /\ has(S_H), <<S_H2, S_H>>)
        \o add(has(S_H2) /\ has(S_CH4), <<S_H2, S_CH4>>)
        \o add(has(S_Hm), <<S_Hm, <<"b","f">>>>)
        \o add(has(S_H) /\ electrons, <<S_Hm, <<"f","f">>>>)
        \o add(has(S_H2) /\ electrons, <<S_H2, S_H2m>>)

get_needed_continuum(s) ==
    IF ~s.molecules.some THEN Throw(s, "AttributeError")
    ELSE LET s1 == [s EXCEPT !.continuum_molecules =
                        Some(ContinuumPairs(s.molecules.v, Has(s.level, "electrons")))]
             \* line 304 asks whether 'H+' is in a literal list; it is not
             s2 == IF S_Hp \in ContinuumOnly THEN add_warnings(s1, W_NoHplus) ELSE s1
         IN  Return([s2 EXCEPT !.molecules =
                        Some(Filter(s.molecules.v,
                                    LAMBDA x : x \notin ContinuumOnly \cup {S_Hp}, 1))])

(***************************************************************************)
(* get_clouds(wno).  Of wno and of the input grid only the lengths matter: *)
(* nout = np.size(wno), cfg.nin = len(self.input_wno).  The cloud file is  *)
(* cfg.cld: file ("None", "missing" or "ok"), its header and row count.    *)
(***************************************************************************)
S_opd == <<"o","p","d">>
S_g0  == <<"g","0">>
S_w0  == <<"w","0">>

CloudCell(seed, g, t, row, col) == 2 * Pow4((seed + row + col + 2 * g + t) % 3)

CloudColumn(cfg, g, t, name) ==
    [row \in 1..cfg.cld.rows |->
        CloudCell(cfg.seed, g, t, row, IndexOf(cfg.cld.header, name))]

\* np.reshape(col, (nlayer, nin)): row-major
reshape(col, nlayer, nin) ==
    [l \in 1..nlayer |-> [w \in 1..nin |-> col[(l - 1) * nin + w]]]

\* wavelength.regrid: [nlayer, nin] onto the nout points of the output grid
regrid(values, nin, nout) ==
    [l \in DOMAIN values |-> [w \in 1..nout |-> values[l][((w - 1) * nin) \div nout + 1]]]

Zeros2(n, m) == [l \in 1..n |-> [w \in 1..m |-> 0]]

RECURSIVE Plus(_, _, _)
Plus(x, v, nd) == IF nd = 0 THEN x + v ELSE [n \in DOMAIN x |-> Plus(x[n], v, nd - 1)]

\* lines 449-452 and 505-507, 519: the assertions on a cloud table
CloudAsserts(cfg, s, rowsFirst) ==
    LET rowsOk == cfg.cld.rows = s.c["nlayer"] * s.c["input_npts_wave"]
        colsOk == /\ InSeq(S_g0, cfg.cld.header)
                  /\ InSeq(S_w0, cfg.cld.header)
                  /\ InSeq(S_opd, cfg.cld.header)
    IN  IF rowsFirst THEN rowsOk /\ colsOk ELSE colsOk /\ rowsOk

\* lines 443-467: 1-D, a cloud file
CloudsFromFile(cfg, s, nout) ==
    LET nlayer == s.c["nlayer"]
        nin    == s.c["input_npts_wave"]
        grid(name) == Arr(2, regrid(reshape(CloudColumn(cfg, 1, 1, name), nlayer, nin),
                                    nin, nout))
    IN  IF cfg.cld.file = "missing"
        THEN Throw(s, "Exception: Cld file specified does not exist")
        ELSE IF ~CloudAsserts(cfg, s, TRUE) THEN Throw(s, "AssertionError")
        ELSE Return([s EXCEPT !.layer = Put(@, "cloud",
                 [opd |-> grid(S_opd), g0 |-> grid(S_g0), w0 |-> grid(S_w0)])])

\* lines 475-480 and 486-495: no file; zeros, and the flat scattering values
CloudFree(cfg, s, nout) ==
    LET zeros == Arr(2, Zeros2(s.c["nlayer"], nout))
        sc    == cfg.scattering
        s1    == IF ~sc.g0.some THEN s
                 ELSE [s EXCEPT !.layer = Put(@, "scattering",
                          [w0 |-> Arr(2, Plus(zeros.a, sc.w0.v, 2)),
                           g0 |-> Arr(2, Plus(zeros.a, sc.g0.v, 2))])]
    IN  IF sc.g0.some /\ ~sc.w0.some THEN Throw(s, "TypeError")
        ELSE Return([s1 EXCEPT !.layer = Put(@, "cloud",
                        [w0 |-> zeros, g0 |-> zeros, opd |-> zeros])])

\* lines 498-536: 3-D; h5py.File of no path, or of a path that is no file, raises
CloudsFromFile3d(cfg, s, nout) ==
    LET nlayer == s.c["nlayer"]
        nin    == s.c["input_npts_wave"]
        ng     == s.c["ngangle"]
        nt     == s.c["ntangle"]
        facet(name, g, t) ==
            regrid(reshape(CloudColumn(cfg, g, t, name), nlayer, nin), nin, nout)
        grid(name) == Arr(4, [l \in 1..nlayer |-> [w \in 1..nout |->
                          [g \in 1..ng |-> [t \in 1..nt |-> facet(name, g, t)[l][w]]]]])
    IN  IF cfg.cld.file = "None" THEN Throw(s, "TypeError: h5py.File(None)")
        ELSE IF cfg.cld.file = "missing" THEN Throw(s, "OSError: h5py.File")
        ELSE IF ~CloudAsserts(cfg, s, FALSE) THEN Throw(s, "AssertionError")
        ELSE IF ng > Len(s.angles.v.gangles) \/ nt > Len(s.angles.v.tangles)
        THEN Throw(s, "IndexError")
        ELSE Return([s EXCEPT !.layer = Put(@, "cloud",
                 [opd |-> grid(S_opd), g0 |-> grid(S_g0), w0 |-> grid(S_w0)])])

\* lines 443, 475, 486, 498, 538: which case get_clouds takes
CloudCase(dim, filepath, g0) ==
    IF filepath # "None" /\ dim = "1d" THEN "1d file"
    ELSE IF filepath = "None" /\ ~g0.some /\ dim = "1d" THEN "1d cloud free"
    ELSE IF filepath = "None" /\ g0.some /\ dim = "1d" THEN "1d flat scattering"
    ELSE IF dim = "3d" THEN "3d file"
    ELSE "not recognized"

get_clouds(cfg, s, nout) ==
    LET s1   == [s EXCEPT !.c = Put(Put(@, "output_npts_wave", nout),
                                    "input_npts_wave", cfg.nin)]
        case == CloudCase(s.dimension, cfg.cld.file, cfg.scattering.g0)
    IN  IF s.dimension = "unset" THEN Throw(s1, "AttributeError")
        ELSE IF case = "1d file" THEN CloudsFromFile(cfg, s1, nout)
        ELSE IF case \in {"1d cloud free", "1d flat scattering"}
        THEN CloudFree(cfg, s1, nout)
        ELSE IF case = "3d file" THEN CloudsFromFile3d(cfg, s1, nout)
        ELSE Throw(s1, "Exception: CLD input not recognized. Either input a filepath, or input None")

(***************************************************************************)
(* disect(g, t), g and t 1-based here.  The assignments run one after the  *)
(* other; the first that raises ends the call and leaves the ones before   *)
(* it done.                                                                *)
(***************************************************************************)
\* x[:, g, t] and x[:, :, g, t]
Slice3(x, g, t) == Arr(x.nd - 2, [r \in DOMAIN x.a |-> x.a[r][g][t]])
Slice4(x, g, t) == Arr(x.nd - 2, [r \in DOMAIN x.a |->
                        [k \in DOMAIN x.a[r] |-> x.a[r][k][g][t]]])

\* d[key] = d[key][:, g, t], or the exception of the lookup or of the indexing
DisectKey(d, key, g, t) ==
    IF ~Has(d, key) THEN Raise("KeyError")
    ELSE IF d[key].nd < 3 THEN Raise("IndexError")
    ELSE Ok(Put(d, key, Slice3(d[key], g, t)))

DisectKey4(d, key, g, t) ==
    IF ~Has(d, key) THEN Raise("KeyError")
    ELSE IF d[key].nd < 4 THEN Raise("IndexError")
    ELSE Ok(Put(d, key, Slice4(d[key], g, t)))

\* lines 617-629, in the order of the code
DisectSteps ==
    << <<"level", "temperature">>, <<"level", "pressure">>,
       <<"layer", "temperature">>, <<"layer", "pressure">>,
       <<"layer", "mmw">>, <<"layer", "mixingratios">>, <<"layer", "colden">>,
       <<"layer", "electrons">>,
       <<"cloud", "opd">>, <<"cloud", "g0">>, <<"cloud", "w0">> >>

DisectStep(s, step, g, t) ==
    IF step[1] = "level"
    THEN LET r == DisectKey(s.level, step[2], g, t)
         IN  IF r.ok THEN Return([s EXCEPT !.level = r.v]) ELSE Throw(s, r.e)
    ELSE IF step[1] = "layer"
    THEN LET r == IF step[2] = "mixingratios" THEN DisectKey4(s.layer, step[2], g, t)
                  ELSE DisectKey(s.layer, step[2], g, t)
         IN  IF r.ok THEN Return([s EXCEPT !.layer = r.v]) ELSE Throw(s, r.e)
    ELSE IF ~Has(s.layer, "cloud") THEN Throw(s, "KeyError")
    ELSE LET r == DisectKey4(s.layer["cloud"], step[2], g, t)
         IN  IF r.ok THEN Return([s EXCEPT !.layer = Put(@, "cloud", r.v)])
             ELSE Throw(s, r.e)

RECURSIVE DisectFrom(_, _, _, _, _)
DisectFrom(s, steps, n, g, t) ==
    IF n > Len(steps) THEN Return(s)
    ELSE LET r == DisectStep(s, steps[n], g, t)
         IN  IF r.exc = "none" THEN DisectFrom(r.self, steps, n + 1, g, t) ELSE r

disect(s, g, t) == DisectFrom(s, DisectSteps, 1, g, t)

(***************************************************************************)
(* The configuration, and the instance after __init__ (lines 27-37 and     *)
(* get_constants).                                                         *)
(***************************************************************************)
BaseConfig ==
    [kind |-> "1d", ptype |-> "user", psrc |-> "frame",
     header |-> <<S_temperature, S_pressure, S_electron, S_H2, S_He>>,
     nrows |-> MaxLevels, seed |-> 0, whichones |-> None, ptnum |-> FALSE,
     ng |-> 1, nt |-> 1, fg |-> 1, ft |-> 1,
     cld |-> [file |-> "None", header |-> <<S_opd, S_g0, S_w0>>, rows |-> 0],
     scattering |-> [g0 |-> None, w0 |-> None], nin |-> 1,
     planet |-> [gravity |-> Some(10), gravity_unit |-> "m/(s**2)",
                 mass |-> None, radius |-> None]]

\* the sequences of 1..n entries of S, and those that repeat no entry
SeqsUpTo(S, n) == UNION {[1..k -> S] : k \in 0..n}
NoRepeat(q) == \A a, b \in DOMAIN q : a # b => q[a] # q[b]

Constructed(cfg) ==
    /\ input = cfg
    /\ warnings = <<>>
    /\ planet = <<>> /\ layer = <<>> /\ level = <<>>
    /\ c = [x \in {"ngangle", "ntangle"} |-> IF x = "ngangle" THEN cfg.ng ELSE cfg.nt]
    /\ dimension = "unset" /\ molecules = None /\ weights = None
    /\ continuum_molecules = None /\ angles = None
    /\ pc = "run" /\ err = "none" /\ last = [op |-> "__init__", g |-> 0, t |-> 0]
    /\ wformula = <<>> /\ wresult = None

(***************************************************************************)
(* One action per method.  A call is made while no call has raised; it     *)
(* leaves the instance as the method left it.  An instance loads one       *)
(* profile, with the loader of its configuration; the other methods are    *)
(* called in any order, any number of times.                               *)
(***************************************************************************)
Call(op, g, t, r) ==
    /\ dimension' = r.self.dimension
    /\ warnings' = r.self.warnings
    /\ level' = r.self.level
    /\ layer' = r.self.layer
    /\ c' = r.self.c
    /\ molecules' = r.self.molecules
    /\ weights' = r.self.weights
    /\ continuum_molecules' = r.self.continuum_molecules
    /\ planet' = r.self.planet
    /\ angles' = r.self.angles
    /\ pc' = IF r.exc = "none" THEN "run" ELSE "failed"
    /\ err' = r.exc
    /\ last' = [op |-> op, g |-> g, t |-> t]
    /\ UNCHANGED <<input, wformula, wresult>>

GetProfile ==
    /\ pc = "run" /\ input.kind = "1d" /\ dimension = "unset"
    /\ Call("get_profile", 0, 0, get_profile(input, Self))

GetProfile3d ==
    /\ pc = "run" /\ input.kind = "3d" /\ dimension = "unset"
    /\ Call("get_profile_3d", 0, 0, get_profile_3d(input, Self))

CalcPT ==
    /\ pc = "run"
    /\ Call("calc_PT", 0, 0, calc_PT(Self))

GetMmw ==
    /\ pc = "run"
    /\ Call("get_mmw", 0, 0, get_mmw(Self))

GetDensity ==
    /\ pc = "run"
    /\ Call("get_density", 0, 0, get_density(Self))

GetGravity ==
    /\ pc = "run"
    /\ Call("get_gravity", 0, 0, get_gravity(input, Self))

GetColumnDensity ==
    /\ pc = "run"
    /\ Call("get_column_density", 0, 0, get_column_density(Self))

GetClouds ==
    /\ pc = "run"
    /\ \E nout \in 1..MaxWave : Call("get_clouds", 0, 0, get_clouds(input, Self, nout))

GetNeededContinuum ==
    /\ pc = "run"
    /\ Call("get_needed_continuum", 0, 0, get_needed_continuum(Self))

Disect ==
    /\ pc = "run"
    /\ \E g \in 1..c["ngangle"], t \in 1..c["ntangle"] :
          Call("disect", g, t, disect(Self, g, t))

Returned(op) == pc = "run" /\ last.op = op
Raised(op)   == pc = "failed" /\ last.op = op

(***************************************************************************)
(* The 1-D loader: every table of up to MaxCols columns out of             *)
(* temperature, pressure, e-, H2 and a column that is no molecule, with    *)
(* and without an explicit list.                                           *)
(***************************************************************************)
Columns1d == {S_temperature, S_pressure, S_electron, S_H2, S_junk}
Listed    == {S_H2, S_electron, S_junk}

InitProfile ==
    \E h \in SeqsUpTo(Columns1d, MaxCols),
       w \in {None} \cup {Some(q) : q \in SeqsUpTo(Listed, MaxList)},
       n \in BOOLEAN :
        /\ Len(h) > 0 /\ NoRepeat(h)
        /\ Constructed([BaseConfig EXCEPT !.header = h, !.whichones = w, !.ptnum = n])

NextProfile == GetProfile \/ GetMmw \/ CalcPT

SpecProfile == InitProfile /\ [][NextProfile]_vars

(***************************************************************************)
(* Claims about the 1-D loader.                                            *)
(***************************************************************************)
Resolvable(name) == get_weights(name).ok

HasTP(cfg) == InSeq(S_temperature, cfg.header) /\ InSeq(S_pressure, cfg.header)

\* level['mixingratios'][:, k] is the column of the table named name
IsColumn(k, name) ==
    /\ InSeq(name, input.header)
    /\ \A r \in 1..input.nrows :
          /\ k \in DOMAIN level["mixingratios"].a[r]
          /\ level["mixingratios"].a[r][k] = ReadColumn(input, name)[r]

\* C2: after the 1-D get_profile succeeds, with an explicit list or without,
\* the molecule registry has the length and the order of the columns of
\* level['mixingratios'] and of the entries of self.weights: entry k of the
\* registry names column k of the matrix.
C2_RegistryMatchesColumns ==
    Returned("get_profile") =>
        /\ molecules.v = ColumnNames(weights.v)
        /\ \A r \in 1..input.nrows :
              Len(level["mixingratios"].a[r]) = Len(molecules.v)
        /\ \A k \in DOMAIN molecules.v : IsColumn(k, molecules.v[k])

\* the columns the scan looks at, those it keeps and those it warns about
Scanned      == Filter(input.header,
                       LAMBDA x : x \notin {S_pressure, S_temperature}, 1)
ScanKept     == Filter(Scanned, Resolvable, 1)
ScanIgnored  == Filter(Scanned, LAMBDA x : ~Resolvable(x) /\ x # S_electron, 1)
ListedUnknown ==
    \E n \in DOMAIN input.whichones.v :
        ~Resolvable(input.whichones.v[n]) /\ input.whichones.v[n] # S_electron

C9_MissingTPRaisesNotImplemented ==
    (last.op = "get_profile" /\ ~HasTP(input) /\ weights.some) =>
        /\ pc = "failed"
        /\ err = calc_PT(Self).exc
        /\ ~Has(c, "nlevel") /\ ~Has(c, "nlayer")

(***************************************************************************)
(* The 3-D pipeline: every header that holds temperature and pressure and  *)
(* any of e-, H2, He, in every order, on every grid of up to MaxAngle      *)
(* gangles and tangles, with a cloud file on the grid of the profile.      *)
(***************************************************************************)
Columns3d == {S_temperature, S_pressure, S_electron, S_H2, S_He}

Config3d(h, ng, nt, nrows, nin) ==
    [BaseConfig EXCEPT !.kind = "3d", !.psrc = "filepath", !.header = h,
                       !.ng = ng, !.nt = nt, !.fg = ng, !.ft = nt,
                       !.nrows = nrows, !.nin = nin,
                       !.cld = [file |-> "ok", header |-> <<S_opd, S_g0, S_w0>>,
                                rows |-> (nrows - 1) * nin]]

Init3d ==
    \E h \in SeqsUpTo(Columns3d, Cardinality(Columns3d)),
       ng \in 1..MaxAngle, nt \in 1..MaxAngle :
        /\ NoRepeat(h) /\ HasTP([header |-> h])
        /\ Constructed(Config3d(h, ng, nt, MaxLevels, 1))

Next3d ==
    \/ GetProfile3d \/ GetMmw \/ GetDensity \/ GetGravity \/ GetColumnDensity
    \/ GetClouds \/ Disect

Spec3d == Init3d /\ [][Next3d]_vars

(***************************************************************************)
(* Claims about the 3-D loader and disect.                                 *)
(***************************************************************************)
HeaderMolecules ==
    Filter(input.header,
           LAMBDA x : x \notin {S_temperature, S_pressure, S_electron}, 1)

Facets == {<<g, t>> \in (1..input.ng) \X (1..input.nt) : TRUE}

\* a[:, g, t] of the rank-3 array a is the column named name of the facet
IsFacetColumn(a, g, t, name, factor) ==
    \A r \in 1..input.nrows :
        a.a[r][g][t] * 1000 =
            FacetColumn(input, g, t, IndexOf(input.header, name))[r] * factor

\* C3: get_profile_3d, for every header with temperature, pressure, possibly
\* e-, and molecule names, in any order: the registry is the header names other
\* than temperature, pressure and e-, in header order; in every facet
\* mixingratios[:,k,g,t] is the column named by registry entry k, temperature
\* the temperature column, pressure the pressure column times pconv, electrons
\* the e- column when there is one; a header without e- loads, without
\* electron fields.
C3_Loads3dHeaderInAnyOrder ==
    last.op = "get_profile_3d" =>
        /\ pc = "run"
        /\ molecules = Some(HeaderMolecules)
        /\ \A f \in Facets :
              /\ IsFacetColumn(level["temperature"], f[1], f[2], S_temperature, 1000)
              /\ IsFacetColumn(level["pressure"], f[1], f[2], S_pressure, pconv)
              /\ \A k \in DOMAIN HeaderMolecules : \A r \in 1..input.nrows :
                    level["mixingratios"].a[r][k][f[1]][f[2]] =
                        FacetColumn(input, f[1], f[2],
                                    IndexOf(input.header, HeaderMolecules[k]))[r]
        /\ IF InSeq(S_electron, input.header)
           THEN \A f \in Facets :
                   IsFacetColumn(level["electrons"], f[1], f[2], S_electron, 1000)
           ELSE ~Has(level, "electrons") /\ ~Has(layer, "electrons")

\* what the loader does load: whenever get_profile_3d returns, the arrays are
\* as C3 says (the headers on which it raises are the ones C3 is wrong about)
Loaded3dIsAsC3Says == Returned("get_profile_3d") => C3_Loads3dHeaderInAnyOrder

\* the 3-D pipeline has run: profile, mmw, density, column density and clouds
PipelineComplete ==
    /\ dimension = "3d"
    /\ Has(level, "mmw") /\ Has(layer, "mmw")
    /\ Has(level, "den")
    /\ Has(layer, "colden")
    /\ Has(layer, "cloud")

\* no array has been projected yet
Unprojected ==
    /\ \A key \in DOMAIN level : level[key].nd >= 3
    /\ \A key \in (DOMAIN layer) \ {"cloud"} : layer[key].nd >= 3
    /\ Has(layer, "cloud") => \A key \in DOMAIN layer["cloud"] : layer["cloud"][key].nd = 4

\* x[:, g, t] or x[:, :, g, t], by the rank of x
Projected(x, g, t) == IF x.nd = 4 THEN Slice4(x, g, t) ELSE Slice3(x, g, t)

\* C6: after the full 3-D pipeline, disect(g,t) leaves every angular-dependent
\* array equal to its (g,t) slice, with no angular dimension left: level
\* temperature, pressure, mixingratios, electrons, mmw and den; layer
\* temperature, pressure, mixingratios, electrons, mmw and colden; cloud opd, g0
\* and w0.
C6_DisectProjectsEveryArray ==
    [][(PipelineComplete /\ Unprojected /\ last'.op = "disect" /\ pc' = "run") =>
          /\ \A key \in {"temperature", "pressure", "mixingratios", "electrons",
                         "mmw", "den"} :
                level'[key] = Projected(level[key], last'.g, last'.t)
          /\ \A key \in {"temperature", "pressure", "mixingratios", "electrons",
                         "mmw", "colden"} :
                layer'[key] = Projected(layer[key], last'.g, last'.t)
          /\ \A key \in {"opd", "g0", "w0"} :
                layer'["cloud"][key] = Projected(layer["cloud"][key], last'.g, last'.t)
      ]_vars

\* what disect does project: the two level arrays and the layer and cloud
\* arrays it names
DisectProjectsWhatItNames ==
    [][(PipelineComplete /\ Unprojected /\ last'.op = "disect" /\ pc' = "run") =>
          /\ \A key \in {"temperature", "pressure"} :
                level'[key] = Projected(level[key], last'.g, last'.t)
          /\ \A key \in {"mixingratios", "electrons", "mmw", "den"} :
                level'[key] = level[key]
          /\ \A key \in {"temperature", "pressure", "mixingratios", "electrons",
                         "mmw", "colden"} :
                layer'[key] = Projected(layer[key], last'.g, last'.t)
          /\ \A key \in {"opd", "g0", "w0"} :
                layer'["cloud"][key] = Projected(layer["cloud"][key], last'.g, last'.t)
      ]_vars

\* C10: on a 3-D instance disect(g,t) raises when any one of get_profile_3d,
\* get_mmw, get_density, get_column_density (with get_gravity) and get_clouds
\* has not run; it returns only after all of them.
C10_DisectNeedsWholePipeline ==
    [][(last'.op = "disect" /\ pc' = "run") =>
          (PipelineComplete /\ Has(planet, "gravity"))]_vars

\* what disect does need: everything but get_density
DisectNeedsAllButDensity ==
    [][(last'.op = "disect" /\ pc' = "run") =>
          /\ dimension = "3d" /\ Has(layer, "mmw") /\ Has(layer, "colden")
          /\ Has(layer, "cloud") /\ Has(planet, "gravity")]_vars

(***************************************************************************)
(* The whole class but disect, on four families of configurations: 1-D     *)
(* tables and lists, 3-D grids, cloud inputs in 1-D and in 3-D, and planet *)
(* and profile-source inputs.                                              *)
(***************************************************************************)
Seeds == {0, 1, 2}

Tables1d ==
    {[BaseConfig EXCEPT !.header = h, !.seed = sd, !.nrows = n, !.whichones = w] :
        h \in {<<S_temperature, S_pressure, S_electron, S_H2, S_He>>,
               <<S_H2, S_pressure, S_junk, S_He, S_temperature>>},
        sd \in Seeds, n \in 1..MaxLevels,
        w \in {None, Some(<<S_He, S_H2>>), Some(<<S_H2, S_electron>>)}}

Grids3d ==
    {[Config3d(h, ng, nt, n, 1) EXCEPT !.seed = sd] :
        h \in {<<S_pressure, S_temperature, S_electron, S_H2, S_He>>,
               <<S_He, S_pressure, S_temperature, S_H2, S_electron>>},
        sd \in Seeds, ng \in 1..MaxAngle, nt \in 1..MaxAngle, n \in 1..MaxLevels}
    \cup {[Config3d(<<S_pressure, S_temperature, S_electron, S_H2>>, MaxAngle, 1,
                    MaxLevels, 1) EXCEPT !.fg = MaxAngle - 1]}

CloudInputs ==
    {[(IF kind = "1d" THEN BaseConfig
       ELSE Config3d(<<S_pressure, S_temperature, S_electron, S_H2>>, MaxAngle, 1,
                     MaxLevels, nin))
      EXCEPT !.nin = nin, !.scattering = sc,
             !.cld = [file |-> f, header |-> ch,
                      rows |-> (MaxLevels - 1) * nin + extra]] :
        kind \in {"1d", "3d"}, nin \in 1..MaxWave,
        sc \in {[g0 |-> None, w0 |-> None], [g0 |-> Some(2), w0 |-> Some(4)],
                [g0 |-> Some(2), w0 |-> None]},
        f \in {"None", "missing", "ok"},
        ch \in {<<S_opd, S_g0, S_w0>>, <<S_w0, S_opd>>},
        extra \in {0, 1}}

PlanetInputs ==
    {[BaseConfig EXCEPT !.planet = pl, !.psrc = src, !.ptype = ty, !.ptnum = TRUE] :
        pl \in {[gravity |-> Some(10), gravity_unit |-> "m/(s**2)",
                 mass |-> None, radius |-> None],
                [gravity |-> Some(1000), gravity_unit |-> "cm/(s**2)",
                 mass |-> None, radius |-> None],
                [gravity |-> None, gravity_unit |-> "cm/(s**2)",
                 mass |-> Some(4000), radius |-> Some(2)],
                [gravity |-> None, gravity_unit |-> "cm/(s**2)",
                 mass |-> Some(4000), radius |-> None]},
        src \in {"filepath", "frame", "dict", "none"},
        ty \in {"user", "other"}}

Init == \E cfg \in Tables1d \cup Grids3d \cup CloudInputs \cup PlanetInputs :
            Constructed(cfg)

Next ==
    \/ GetProfile \/ GetProfile3d \/ CalcPT \/ GetMmw \/ GetDensity \/ GetGravity
    \/ GetColumnDensity \/ GetClouds \/ GetNeededContinuum

Spec == Init /\ [][Next]_vars

(***************************************************************************)
(* Claims about the layer arrays and about get_clouds.                     *)
(***************************************************************************)
\* x is the arithmetic mean, or the geometric mean, of a and b, elementwise
RECURSIVE IsMean(_, _, _, _)
IsMean(x, a, b, nd) ==
    IF nd = 0 THEN 2 * x = a + b
    ELSE DOMAIN x = DOMAIN a /\ DOMAIN a = DOMAIN b
         /\ \A n \in DOMAIN x : IsMean(x[n], a[n], b[n], nd - 1)

RECURSIVE IsGeoMean(_, _, _, _)
IsGeoMean(x, a, b, nd) ==
    IF nd = 0 THEN x * x = a * b
    ELSE DOMAIN x = DOMAIN a /\ DOMAIN a = DOMAIN b
         /\ \A n \in DOMAIN x : IsGeoMean(x[n], a[n], b[n], nd - 1)

MeanFields == {"temperature", "mixingratios", "mmw"}
                  \cup (IF Has(level, "electrons") THEN {"electrons"} ELSE {})

\* the level pressures are the pressure column(s) of the input times pconv
PressureIsInputTimesPconv ==
    IF dimension = "1d"
    THEN \A r \in 1..input.nrows :
            level["pressure"].a[r] * 1000 = ReadColumn(input, S_pressure)[r] * pconv
    ELSE \A f \in Facets :
            IsFacetColumn(level["pressure"], f[1], f[2], S_pressure, pconv)

\* C4: after a profile is loaded (1-D, or 3-D facet by facet) and get_mmw has
\* run, every layer array has c.nlayer = nlevel - 1 entries, layer temperature,
\* mixing ratios, electrons and mmw are 0.5*(level[i] + level[i+1]), and layer
\* pressure is sqrt(level[i] * level[i+1]) of the input pressure times pconv.
C4_LayersAreMidpointsOfLevels ==
    Returned("get_mmw") =>
        /\ c["nlayer"] = c["nlevel"] - 1
        /\ \A key \in MeanFields \cup {"pressure"} :
              /\ Has(level, key) /\ Has(layer, key)
              /\ level[key].nd = layer[key].nd
              /\ Len(level[key].a) = c["nlevel"]
              /\ Len(layer[key].a) = c["nlayer"]
        /\ \A key \in MeanFields : \A i \in 1..c["nlayer"] :
              IsMean(layer[key].a[i], level[key].a[i], level[key].a[i + 1],
                     level[key].nd - 1)
        /\ \A i \in 1..c["nlayer"] :
              IsGeoMean(layer["pressure"].a[i], level["pressure"].a[i],
                        level["pressure"].a[i + 1], level["pressure"].nd - 1)
        /\ PressureIsInputTimesPconv

\* witness of C4: a 3-D instance with electrons, two layers, two facets, whose
\* level temperatures differ, after get_mmw
C4_Witness_3dLayersAfterMmw ==
    /\ Returned("get_mmw") /\ dimension = "3d"
    /\ c["nlayer"] = 2 /\ input.ng * input.nt >= 2
    /\ Has(layer, "electrons")
    /\ level["temperature"].a[1][1][1] # level["temperature"].a[2][1][1]
    /\ Len(layer["mixingratios"].a[1]) = 2

\* the same in 1-D
LayersAfterMmw1d ==
    /\ Returned("get_mmw") /\ dimension = "1d"
    /\ c["nlayer"] = 2 /\ Has(layer, "electrons")
    /\ level["pressure"].a[1] # level["pressure"].a[2]

E_CldNotRecognized ==
    "Exception: CLD input not recognized. Either input a filepath, or input None"

NoCloudState == ~Has(layer, "cloud") /\ ~Has(layer, "scattering")

AllZero(x) == \A l \in DOMAIN x.a : \A w \in DOMAIN x.a[l] : x.a[l][w] = 0

\* C7: get_clouds takes one of four cases by (dimension, cloud file given, flat
\* scattering value given): 1-D with file, 1-D with neither, 1-D with a
\* scattering value and no file, 3-D with file; any other combination, 3-D
\* without a cloud file in particular, raises "cloud input not recognized" and
\* sets no cloud state.
C7_FourCloudCasesElseNotRecognized ==
    (last.op = "get_clouds" /\ dimension # "unset") =>
        LET file == input.cld.file # "None"
            flat == input.scattering.g0.some
        IN  IF dimension = "1d" /\ file
            THEN pc = "run" => ~Has(layer, "scattering") /\ layer["cloud"]["opd"].nd = 2
            ELSE IF dimension = "1d" /\ ~flat
            THEN pc = "run" /\ ~Has(layer, "scattering")
                 /\ \A key \in {"opd", "g0", "w0"} : AllZero(layer["cloud"][key])
            ELSE IF dimension = "1d"
            THEN pc = "run" => Has(layer, "scattering")
                               /\ \A key \in {"opd", "g0", "w0"} :
                                     AllZero(layer["cloud"][key])
            ELSE IF dimension = "3d" /\ file
            THEN pc = "run" => layer["cloud"]["opd"].nd = 4
            ELSE pc = "failed" /\ err = E_CldNotRecognized /\ NoCloudState

\* what the code does on 3-D without a cloud file: it takes the 3-D case and
\* fails opening the file (every other case is as C7 says)
NoFile3dFailsOpening ==
    (last.op = "get_clouds" /\ dimension = "3d" /\ input.cld.file = "None") =>
        pc = "failed" /\ err = "TypeError: h5py.File(None)" /\ NoCloudState

(***************************************************************************)
(* The continuum selector: every 1-D table of temperature, pressure and    *)
(* any of e- and the species the selector looks at, in one order and in    *)
(* the reverse order.                                                      *)
(***************************************************************************)
Species == <<S_electron, S_H2, S_He, S_N2, S_H, S_CH4, S_Hm, S_Hp, S_H2O>>

Reverse(q) == [n \in DOMAIN q |-> q[Len(q) + 1 - n]]

InitContinuum ==
    \E pick \in SUBSET (DOMAIN Species), rev \in BOOLEAN :
        LET cols == Filter(Species, LAMBDA x : \E n \in pick : Species[n] = x, 1)
        IN  Constructed([BaseConfig EXCEPT
                !.nrows = 2,
                !.header = <<S_temperature, S_pressure>>
                               \o (IF rev THEN Reverse(cols) ELSE cols)])

NextContinuum == GetProfile \/ GetNeededContinuum

SpecContinuum == InitContinuum /\ [][NextContinuum]_vars

Elements(q) == {q[n] : n \in DOMAIN q}

\* the rule table of the selector
RulePairs(mols, electrons) ==
    LET has(x) == x \in mols IN
    {p \in {<<S_H2, S_H2>>, <<S_H2, S_He>>, <<S_H2, S_N2>>, <<S_H2, S_H>>,
            <<S_H2, S_CH4>>, <<S_Hm, <<"b","f">>>>, <<S_Hm, <<"f","f">>>>,
            <<S_H2, S_H2m>>} :
        \/ p = <<S_H2, S_H2>>  /\ has(S_H2)
        \/ p = <<S_H2, S_He>>  /\ has(S_H2) /\ has(S_He)
        \/ p = <<S_H2, S_N2>>  /\ has(S_H2) /\ has(S_N2)
        \/ p = <<S_H2, S_H>>   /\ has(S_H2) /\ has(S_H)
        \/ p = <<S_H2, S_CH4>> /\ has(S_H2) /\ has(S_CH4)
        \/ p = <<S_Hm, <<"b","f">>>> /\ has(S_Hm)
        \/ p = <<S_Hm, <<"f","f">>>> /\ has(S_H) /\ electrons
        \/ p = <<S_H2, S_H2m>> /\ has(S_H2) /\ electrons}

\* C5: for every registry and with or without level['electrons'],
\* get_needed_continuum sets continuum_molecules to the pairs of the rule
\* table, each once, and to no other pair: (H2,H2) iff H2; (H2,He) iff H2 and
\* He; (H2,N2) iff H2 and N2; (H2,H) iff H2 and H; (H2,CH4) iff H2 and CH4;
\* (H-,bf) iff H-; (H-,ff) iff H and electrons; (H2,H2-) iff H2 and electrons.
C5_ContinuumPairsFollowRuleTable ==
    [][(last'.op = "get_needed_continuum" /\ pc' = "run") =>
          /\ Elements(continuum_molecules'.v) =
                 RulePairs(Elements(molecules.v), Has(level, "electrons"))
          /\ NoRepeat(continuum_molecules'.v)
      ]_vars

\* witness of C5: the selector has run on H2, H, CH4 and electrons without H-
C5_Witness_FreeFreeWithoutHminus ==
    /\ Returned("get_needed_continuum")
    /\ Elements(continuum_molecules.v) =
           {<<S_H2, S_H2>>, <<S_H2, S_H>>, <<S_H2, S_CH4>>,
            <<S_Hm, <<"f","f">>>>, <<S_H2, S_H2m>>}
    /\ ~InSeq(S_Hm, input.header)

\* C11: whenever 'H+' is in the registry when get_needed_continuum is called,
\* the call returns and appends the warning 'No H+ continuum opacity included'
\* to self.warnings; when 'H+' is not in the registry the warning list is left
\* as it was.
C11_HplusInRegistryIsWarned ==
    [][(last'.op = "get_needed_continuum" /\ molecules.some) =>
          /\ pc' = "run"
          /\ IF InSeq(S_Hp, molecules.v)
             THEN warnings' = Append(warnings, W_NoHplus)
             ELSE warnings' = warnings
      ]_vars

\* what the code does instead: the selector never touches the warning list
SelectorNeverWarns ==
    [][last'.op = "get_needed_continuum" => warnings' = warnings]_vars

\* the selector has returned on a registry that held 'H+'
SelectorRanWithHplus ==
    /\ Returned("get_needed_continuum")
    /\ InSeq(S_Hp, input.header)
    /\ ~InSeq(W_NoHplus, warnings)

\* the five pairs of H2, He, H with electrons, and the four of them the
\* example keeps
PairsOfH2HeHWithElectrons ==
    {<<S_H2, S_H2>>, <<S_H2, S_He>>, <<S_H2, S_H>>, <<S_Hm, <<"f","f">>>>,
     <<S_H2, S_H2m>>}

PairsWithoutFreeFree == PairsOfH2HeHWithElectrons \ {<<S_Hm, <<"f","f">>>>}

SelectorExample(pairs) ==
    (last'.op = "get_needed_continuum" /\ pc' = "run") =>
        /\ (Elements(molecules.v) = {S_H2, S_He, S_H} /\ Has(level, "electrons")) =>
               /\ Elements(continuum_molecules'.v) = pairs
               /\ NoRepeat(continuum_molecules'.v)
        /\ (Elements(molecules.v) = {S_H2O} /\ ~Has(level, "electrons")) =>
               continuum_molecules'.v = <<>>

\* C12 as stated: on the registry {H2, He, H} with electrons and without H-,
\* get_needed_continuum yields exactly (H2,H2), (H2,He), (H2,H) and (H2,H2-),
\* (H-,ff) being left out; on the registry {H2O} without electrons it yields
\* no pair.
C12_ExampleOmitsFreeFree ==
    [][SelectorExample(PairsWithoutFreeFree)]_vars

\* C12 amended: on the registry {H2, He, H} with electrons and without H-,
\* get_needed_continuum yields exactly (H2,H2), (H2,He), (H2,H), (H-,ff) and
\* (H2,H2-): the free-free pair asks for H and electrons, not for H-; on the
\* registry {H2O} without electrons it yields no pair.
C12_ExampleKeepsFreeFree ==
    [][SelectorExample(PairsOfH2HeHWithElectrons)]_vars

\* witness of C12: the selector has returned the five pairs on a table whose
\* species are exactly e-, H2, He and H
C12_Witness_H2HeHWithElectrons ==
    /\ Returned("get_needed_continuum")
    /\ Elements(input.header) =
           {S_temperature, S_pressure, S_electron, S_H2, S_He, S_H}
    /\ Elements(continuum_molecules.v) = PairsOfH2HeHWithElectrons

\* the selector has returned no pair on a table whose only species is H2O
SelectorRanOnWaterAlone ==
    /\ Returned("get_needed_continuum")
    /\ input.header = <<S_temperature, S_pressure, S_H2O>>
    /\ continuum_molecules.v = <<>>

(***************************************************************************)
(* The registry filter: one table holding e-, H2, He, H+ and H2O, loaded   *)
(* with every list whichones of up to MaxList of these names, a name more  *)
(* than once included; the registry is then the list as given.             *)
(***************************************************************************)
RegistryNames == {S_electron, S_H2, S_He, S_Hp, S_H2O}

InitRegistry ==
    \E w \in SeqsUpTo(RegistryNames, MaxList) :
        Constructed([BaseConfig EXCEPT
            !.nrows = 2,
            !.header = <<S_temperature, S_pressure, S_electron, S_H2, S_He,
                         S_Hp, S_H2O>>,
            !.whichones = Some(w)])

NextRegistry == GetProfile \/ GetMmw \/ GetNeededContinuum

SpecRegistry == InitRegistry /\ [][NextRegistry]_vars

\* the names the selector takes out of the registry
RemovedNames == {S_H, S_H2m, S_H2, S_Hm, S_He, S_N2, S_Hp}

\* after is before without its entries in S, the others in their order: the
\* n-th entry of after is the entry of before at the n-th kept position
IsWithout(after, before, S) ==
    LET kept == {k \in DOMAIN before : before[k] \notin S} IN
    /\ Len(after) = Cardinality(kept)
    /\ \A n \in DOMAIN after :
          \E k \in kept : /\ Cardinality({j \in kept : j <= k}) = n
                          /\ after[n] = before[k]

\* C13: after get_needed_continuum the registry is the registry before the
\* call without every H, H2-, H2, H-, He, N2 and H+, the other names in the
\* order they had; the call leaves self.weights, every level and layer array,
\* and all else but continuum_molecules, the registry and the warning list as
\* they were.
C13_RegistryFilteredRestUnchanged ==
    [][(last'.op = "get_needed_continuum" /\ pc' = "run") =>
          /\ IsWithout(molecules'.v, molecules.v, RemovedNames)
          /\ weights' = weights
          /\ level' = level
          /\ layer' = layer
          /\ UNCHANGED <<input, dimension, c, planet, angles>>
      ]_vars

\* witness of C13: the selector has returned on the registry [H2O, H2] with
\* the mean molecular weights computed, and has left H2O in it
C13_Witness_WaterKeptHydrogenRemoved ==
    /\ Returned("get_needed_continuum")
    /\ input.whichones = Some(<<S_H2O, S_H2>>)
    /\ molecules = Some(<<S_H2O>>)
    /\ Has(level, "mmw")
    /\ ColumnNames(weights.v) = <<S_H2O, S_H2>>

(***************************************************************************)
(* get_weights called on its own, on every string over FormulaChars of     *)
(* length 1..MaxLen.                                                       *)
(***************************************************************************)
FormulaChars == {"H", "C", "N", "a", "l", "0", "1", "2"}

Strings(S, n) == UNION {[1..k -> S] : k \in 1..n}

InitW ==
    /\ wformula \in Strings(FormulaChars, MaxLen)
    /\ wresult = None
    /\ pc = "run"
    /\ input = BaseConfig /\ dimension = "unset" /\ warnings = <<>>
    /\ level = <<>> /\ layer = <<>> /\ c = <<>>
    /\ molecules = None /\ weights = None /\ continuum_molecules = None
    /\ planet = <<>> /\ angles = None /\ err = "none"
    /\ last = [op |-> "__init__", g |-> 0, t |-> 0]

CallGetWeights ==
    /\ pc = "run" /\ wresult = None
    /\ wresult' = Some(get_weights(wformula))
    /\ pc' = "done"
    /\ UNCHANGED <<selfvars, err, last, wformula>>

NextW == CallGetWeights

SpecWeights == InitW /\ [][NextW]_vars

(***************************************************************************)
(* The mass a formula stands for: element symbols (an uppercase letter and *)
(* the lowercase letters after it), each with the decimal value of the     *)
(* whole digit run after it, 1 when there is none.  A count is written     *)
(* without a leading zero.                                                 *)
(***************************************************************************)
RECURSIVE RunLen(_, _, _)
RunLen(i, k, S) == IF k <= Len(i) /\ i[k] \in S THEN 1 + RunLen(i, k + 1, S) ELSE 0

RECURSIVE DecValue(_, _, _, _)
DecValue(i, k, n, acc) ==
    IF n = 0 THEN acc ELSE DecValue(i, k + 1, n - 1, acc * 10 + FloatOfChar(i[k]))

RECURSIVE FormulaTokens(_, _)
FormulaTokens(i, k) ==
    IF k > Len(i) THEN [valid |-> TRUE, toks |-> <<>>]
    ELSE IF ~isupper(i[k]) THEN [valid |-> FALSE, toks |-> <<>>]
    ELSE LET nl   == RunLen(i, k + 1, LowerChars)
             nd   == RunLen(i, k + 1 + nl, DigitChars)
             sym  == SubSeq(i, k, k + nl)
             cnt  == IF nd = 0 THEN 1 ELSE DecValue(i, k + 1 + nl, nd, 0)
             rest == FormulaTokens(i, k + 1 + nl + nd)
         IN  [valid |-> rest.valid /\ (nd > 0 => i[k + 1 + nl] # "0"),
              toks  |-> <<[sym |-> sym, count |-> cnt]>> \o rest.toks]

ValidFormula(i) ==
    /\ Len(i) > 0
    /\ FormulaTokens(i, 1).valid
    /\ \A n \in DOMAIN FormulaTokens(i, 1).toks :
           FormulaTokens(i, 1).toks[n].sym \in DOMAIN ele

RECURSIVE TokenMass(_, _)
TokenMass(toks, n) ==
    IF n > Len(toks) THEN 0
    ELSE ele[toks[n].sym] * toks[n].count + TokenMass(toks, n + 1)

FormulaMass(i) == TokenMass(FormulaTokens(i, 1).toks, 1)

\* C1: for every valid chemical formula get_weights returns the sum over the
\* element tokens of mass(element) * multiplicity, the multiplicity being the
\* whole digit run after the element (1 if absent); also for several
\* two-letter symbols and for multi-digit counts.
C1_WeightIsSumOfElementMasses ==
    (pc = "done" /\ ValidFormula(wformula)) => wresult = Some(Ok(FormulaMass(wformula)))

====
